---------------------------- MODULE Spec2Model ----------------------------
(***************************************************************************)
(* Two Icinga2 health-check probes:                                        *)
(*   check_mongolu_monitor.py  replica-set role of a MongoDB instance      *)
(*   check_redis_monitor.py    memory pressure and latency of a Redis      *)
(*                                                                         *)
(* Representation.                                                         *)
(*  - Text that the program slices or parses (the human-readable memory    *)
(*    strings of INFO, the output of `keydb-cli --latency`) is a sequence  *)
(*    of one-character strings.                                            *)
(*  - Text that the program only builds (a message) is the sequence of the *)
(*    pieces of its f-string, in order; Text joins them into the line.     *)
(*  - A Python float is an integer number of hundredths (20.0 is 2000,     *)
(*    0.95 is 95).  Every number the model feeds in has at most two        *)
(*    decimals, as the %.2f of redis and of keydb-cli prints them.         *)
(*  - An optional float (argparse leaves an absent flag None) is <<>> for  *)
(*    None and <<v>> for the float v.                                      *)
(*  - Argument parsing itself (argparse) is not modelled: a run starts     *)
(*    with the parsed arguments.                                           *)
(***************************************************************************)
EXTENDS Integers, Sequences, FiniteSets, TLC

(* Number of invocations of the probe by the supervisor that are followed. *)
MaxRuns == 2

-----------------------------------------------------------------------------
(* Python values *)

None == <<>>
Float(v) == <<v>>
Val(x) == x[1]

(* `not x` is true of None and of 0.0 *)
IsFalsy(x) == x = None \/ x = Float(0)

RECURSIVE Text(_)
(* the str made of the pieces ps *)
Text(ps) == IF ps = <<>> THEN "" ELSE Head(ps) \o Text(Tail(ps))

Abs(n) == IF n < 0 THEN -n ELSE n

TwoDigits(n) == IF n < 10 THEN "0" \o ToString(n) ELSE ToString(n)

(* repr of the float h/100, h with at most two decimals: 2000 -> "20.0",   *)
(* 7 -> "0.07", 2550 -> "25.5"                                             *)
PyFloatRepr(h) ==
    LET a == Abs(h)
        sign == IF h < 0 THEN "-" ELSE ""
        frac == a % 100
    IN sign \o ToString(a \div 100) \o "." \o
       (IF frac % 10 = 0 THEN ToString(frac \div 10) ELSE TwoDigits(frac))

(* f'{x:.2f}' of the float of magnitude m/10000, negative when neg (the    *)
(* sign is kept apart because Python prints -0.0 as "-0.00"): rounded to   *)
(* the nearest hundredth, a tie to the even one.  (On a decimal tie the    *)
(* binary value of the float decides in Python; no input of the model      *)
(* produces a tie.)                                                        *)
Format2f(m, neg) ==
    LET q == m \div 100
        r == m % 100
        h == IF r > 50 \/ (r = 50 /\ q % 2 = 1) THEN q + 1 ELSE q
    IN (IF neg THEN "-" ELSE "") \o ToString(h \div 100) \o "." \o TwoDigits(h % 100)

-----------------------------------------------------------------------------
(* float(str) *)

Whitespace == {" ", "\n", "\t"}
Digits == {"0", "1", "2", "3", "4", "5", "6", "7", "8", "9"}

DigitVal(c) ==
    CASE c = "0" -> 0 [] c = "1" -> 1 [] c = "2" -> 2 [] c = "3" -> 3
      [] c = "4" -> 4 [] c = "5" -> 5 [] c = "6" -> 6 [] c = "7" -> 7
      [] c = "8" -> 8 [] c = "9" -> 9

RECURSIVE LStrip(_)
LStrip(cs) == IF cs # <<>> /\ Head(cs) \in Whitespace THEN LStrip(Tail(cs)) ELSE cs

RECURSIVE RStrip(_)
RStrip(cs) ==
    IF cs # <<>> /\ cs[Len(cs)] \in Whitespace
    THEN RStrip(SubSeq(cs, 1, Len(cs) - 1)) ELSE cs

RECURSIVE NatOf(_)
(* the number the digits ds write; 0 for none *)
NatOf(ds) ==
    IF ds = <<>> THEN 0
    ELSE 10 * NatOf(SubSeq(ds, 1, Len(ds) - 1)) + DigitVal(ds[Len(ds)])

AllDigits(ds) == \A i \in 1..Len(ds) : ds[i] \in Digits

ValueError == [error |-> "ValueError", value |-> 0]

(* float(cs): surrounding whitespace is ignored; then an optional sign,    *)
(* digits, and optionally a point and digits, with a digit somewhere.      *)
(* Anything else raises ValueError.  The result is in hundredths.          *)
PyFloat(cs) ==
    LET s == RStrip(LStrip(cs))
        neg == s # <<>> /\ Head(s) = "-"
        u == IF s # <<>> /\ Head(s) \in {"-", "+"} THEN Tail(s) ELSE s
        dots == {i \in 1..Len(u) : u[i] = "."}
        dot == IF dots = {} THEN Len(u) + 1 ELSE CHOOSE i \in dots : TRUE
        ip == SubSeq(u, 1, dot - 1)
        fp == SubSeq(u, dot + 1, Len(u))
        fp2 == IF Len(fp) >= 2 THEN SubSeq(fp, 1, 2) ELSE fp \o <<"0">>
        mag == 100 * NatOf(ip) + (IF fp = <<>> THEN 0 ELSE NatOf(fp2))
    IN IF Cardinality(dots) > 1 \/ ~AllDigits(ip) \/ ~AllDigits(fp)
          \/ (ip = <<>> /\ fp = <<>>)
       THEN ValueError
       ELSE [error |-> "none", value |-> IF neg THEN -mag ELSE mag]

-----------------------------------------------------------------------------
(* check_mongolu_monitor.py *)

STATUS == [OK |-> 0, CRITICAL |-> 2]

PRIMARY_INSTANCE == 1
SECONDARY_INSTANCE == 2

(* report_instance_status with `>=` for `==` in its elif *)
ReportInstanceStatusAtLeast(instance_status) ==
    LET message == <<"|replica_health=1;;0;;">>
    IN IF instance_status = PRIMARY_INSTANCE
       THEN [raised |-> "none", message |-> <<"Ok - Replica Primary">> \o message]
       ELSE IF instance_status >= SECONDARY_INSTANCE
       THEN [raised |-> "none", message |-> <<"Ok - Replica Secondary">> \o message]
       ELSE [raised |-> "ReplicaUnhealthy",
             message |-> <<"Critical - Replica NOK!">> \o message]

(* report_instance_status from the read of the state on: the message, and  *)
(* the exception it leaves with (args: the message)                        *)
ReportInstanceStatus(instance_status) ==
    LET message == <<"|replica_health=1;;0;;">>
    IN IF instance_status = PRIMARY_INSTANCE
       THEN [raised |-> "none", message |-> <<"Ok - Replica Primary">> \o message]
       ELSE IF instance_status = SECONDARY_INSTANCE
       THEN [raised |-> "none", message |-> <<"Ok - Replica Secondary">> \o message]
       ELSE [raised |-> "ReplicaUnhealthy",
             message |-> <<"Critical - Replica NOK!">> \o message]

(* the exceptions main catches *)
MongoCaught == {"ServerSelectionTimeoutError", "OperationFailure", "ReplicaUnhealthy"}

-----------------------------------------------------------------------------
(* check_redis_monitor.py *)

ARGS_TABLE == [MAX_PERCENTUAL_MEMORY_USAGE |-> 95, MAX_LATENCY_MS |-> 2000]

(* the resolution with `if x is None` for `if not x` *)
ResolveNoneOnly(value, default) == IF value = None THEN Float(default) ELSE value

(* the two `if not x: x = ARGS[...]` of report_stats *)
Resolve(value, default) == IF IsFalsy(value) THEN Float(default) ELSE value

(* output.decode('utf-8').split(' '): the fields between single spaces;    *)
(* two spaces in a row enclose an empty field, "" gives [""]               *)
RECURSIVE SplitSpace(_)
SplitSpace(cs) ==
    LET at == {i \in 1..Len(cs) : cs[i] = " "}
    IN IF at = {} THEN <<cs>>
       ELSE LET i == CHOOSE k \in at : \A j \in at : k <= j
            IN <<SubSeq(cs, 1, i - 1)>> \o SplitSpace(SubSeq(cs, i + 1, Len(cs)))

(* run_keydb_latency_check: Popen raises OSError when the tool cannot be   *)
(* started; else the fields of what it wrote                               *)
RunKeydbLatencyCheck(tool) ==
    IF tool.kind = "OSError"
    THEN [error |-> "OSError", results |-> <<>>]
    ELSE [error |-> "none", results |-> SplitSpace(tool.output)]

(* max_memory_usage * maxmemory, in hundredths of a byte *)
GetMemoryThresholdByPercentage(max_memory_usage, client_information) ==
    max_memory_usage * client_information.maxmemory

(* the human threshold with the unit taken from used_memory_human *)
GetHumanMemoryThresholdUsedUnit(max_memory_usage, client_information) ==
    LET human == client_information.maxmemory_human
        size == Len(human)
        value == PyFloat(SubSeq(human, 1, size - 1))
        used == client_information.used_memory_human
        unit == SubSeq(used, Len(used), Len(used))
    IN IF value.error # "none" THEN [error |-> value.error, human |-> <<>>]
       ELSE [error |-> "none",
             human |-> <<Format2f(Abs(value.value) * Abs(max_memory_usage),
                                  (value.value < 0) # (max_memory_usage < 0)),
                         Text(unit), "B">>]

(* the pieces of f'{max_memory_to_alarm:.2f}{max_memory_unit_byte}B' *)
GetHumanMemoryThresholdByPercentage(max_memory_usage, client_information) ==
    LET human == client_information.maxmemory_human
        size == Len(human)
        value == PyFloat(SubSeq(human, 1, size - 1))
        unit == SubSeq(human, size, size)
    IN IF value.error # "none" THEN [error |-> value.error, human |-> <<>>]
       ELSE [error |-> "none",
             human |-> <<Format2f(Abs(value.value) * Abs(max_memory_usage),
                                  (value.value < 0) # (max_memory_usage < 0)),
                         Text(unit), "B">>]

(* check_memory_usage with `>=` for `>` *)
CheckMemoryUsageStrict(client_information, max_memory_usage) ==
    LET max_memory_allowed ==
            GetMemoryThresholdByPercentage(max_memory_usage, client_information)
        h == GetHumanMemoryThresholdByPercentage(max_memory_usage, client_information)
    IN [error |-> h.error,
        memory_healthy |-> ~(100 * client_information.used_memory >= max_memory_allowed),
        max_memory_allowed_human |-> h.human]

(* check_memory_usage; used_memory is brought to hundredths of a byte for  *)
(* the comparison with the threshold                                       *)
CheckMemoryUsage(client_information, max_memory_usage) ==
    LET max_memory_allowed ==
            GetMemoryThresholdByPercentage(max_memory_usage, client_information)
        h == GetHumanMemoryThresholdByPercentage(max_memory_usage, client_information)
    IN [error |-> h.error,
        memory_healthy |-> ~(100 * client_information.used_memory > max_memory_allowed),
        max_memory_allowed_human |-> h.human]

(* check_latency reading results[1] for results[2] *)
CheckLatencySecondField(max_latency, tool) ==
    LET r == RunKeydbLatencyCheck(tool)
        f == IF r.error = "none" /\ Len(r.results) >= 3
             THEN PyFloat(r.results[2]) ELSE ValueError
    IN IF r.error # "none" THEN [error |-> r.error, healthy |-> FALSE, latency |-> 0]
       ELSE IF Len(r.results) < 3
       THEN [error |-> "IndexError", healthy |-> FALSE, latency |-> 0]
       ELSE IF f.error # "none"
       THEN [error |-> "ValueError", healthy |-> FALSE, latency |-> 0]
       ELSE [error |-> "none", healthy |-> ~(f.value > max_latency),
             latency |-> f.value]

(* check_latency, the tool's outcome given: results[2] raises IndexError   *)
(* when there are fewer than three fields, float raises ValueError         *)
CheckLatency(max_latency, tool) ==
    LET r == RunKeydbLatencyCheck(tool)
        f == IF r.error = "none" /\ Len(r.results) >= 3
             THEN PyFloat(r.results[3]) ELSE ValueError
    IN IF r.error # "none" THEN [error |-> r.error, healthy |-> FALSE, latency |-> 0]
       ELSE IF Len(r.results) < 3
       THEN [error |-> "IndexError", healthy |-> FALSE, latency |-> 0]
       ELSE IF f.error # "none"
       THEN [error |-> "ValueError", healthy |-> FALSE, latency |-> 0]
       ELSE [error |-> "none", healthy |-> ~(f.value > max_latency),
             latency |-> f.value]

(* format_message: the pieces of the line, in order *)
FormatMessage(memory_healthy, max_memory_allowed_human, latency_healthy, max_latency, client_information, latency) ==
    LET used_memory_human == <<Text(client_information.used_memory_human), "B">>
        maxmemory_human == <<Text(client_information.maxmemory_human), "B">>
    IN <<IF ~memory_healthy THEN "high" ELSE "", " memory usage: ">>
       \o used_memory_human \o <<" used of ">> \o maxmemory_human
       \o <<" / ", IF ~latency_healthy THEN "high" ELSE "", " average latency: ",
            PyFloatRepr(latency), " ms", "|used_memory=">>
       \o used_memory_human \o <<";;">> \o max_memory_allowed_human
       \o <<";; average_latency=", PyFloatRepr(latency), ";;",
            PyFloatRepr(max_latency), ";;">>

(* the exceptions main catches *)
RedisCaught == {"RedisError"}

-----------------------------------------------------------------------------
(* What the services answer and what the supervisor passes *)

(* myState of replSetGetStatus: STARTUP 0, PRIMARY 1, SECONDARY 2,         *)
(* RECOVERING 3, STARTUP2 5, UNKNOWN 6, ARBITER 7, DOWN 8, ROLLBACK 9,     *)
(* REMOVED 10                                                              *)
ReplStates == 0..10

ReplOutcomes ==
    {[kind |-> "ok", myState |-> s, msg |-> ""] : s \in ReplStates}
    \cup {[kind |-> "ServerSelectionTimeoutError", myState |-> 0,
           msg |-> "localhost:27017: [Errno 111] Connection refused"],
          [kind |-> "OperationFailure", myState |-> 0,
           msg |-> "Authentication failed."]}

NoInfo ==
    [used_memory |-> 0, used_memory_human |-> <<>>,
     maxmemory |-> 0, maxmemory_human |-> <<>>]

(* INFO snapshots; the human strings are redis' own rendering of the byte  *)
(* counts (n < 1024: "<n>B", else two decimals and K, M, ...)              *)
InfoSnapshots ==
    { [used_memory |-> 6164, used_memory_human |-> <<"6", ".", "0", "2", "K">>,
       maxmemory |-> 3764388, maxmemory_human |-> <<"3", ".", "5", "9", "M">>],
      [used_memory |-> 2000, used_memory_human |-> <<"1", ".", "9", "5", "K">>,
       maxmemory |-> 2048, maxmemory_human |-> <<"2", ".", "0", "0", "K">>],
      [used_memory |-> 1900, used_memory_human |-> <<"1", ".", "8", "6", "K">>,
       maxmemory |-> 2000, maxmemory_human |-> <<"1", ".", "9", "5", "K">>],
      [used_memory |-> 1000, used_memory_human |-> <<"1", "0", "0", "0", "B">>,
       maxmemory |-> 0, maxmemory_human |-> <<"0", "B">>],
      [used_memory |-> 0, used_memory_human |-> <<"0", "B">>,
       maxmemory |-> 0, maxmemory_human |-> <<"0", "B">>] }

InfoOutcomes ==
    {[kind |-> "ok", info |-> i, msg |-> ""] : i \in InfoSnapshots}
    \cup {[kind |-> "RedisError", info |-> NoInfo,
           msg |-> "Error 111 connecting to localhost:6379. Connection refused."]}

(* What `keydb-cli --latency` writes to a pipe is "min max avg samples\n"; *)
(* the other outputs are an empty one, a short one, the terminal format,   *)
(* one with two spaces in a row and one without the sample count.          *)
LatencyOutputs ==
    { <<"0", " ", "1", " ", "0", ".", "0", "7", " ", "9", "8", "\n">>,
      <<"0", " ", "3", "0", " ", "2", "5", ".", "0", "0", " ", "9", "0", "\n">>,
      <<"0", " ", "2", "1", " ", "2", "0", ".", "0", "0", " ", "9", "5", "\n">>,
      <<"0", " ", "9", " ", "5", ".", "0", "0", " ", "9", "9", "\n">>,
      <<>>,
      <<"0", " ", "1", "\n">>,
      <<"m", "i", "n", ":", " ", "0", ",", " ", "m", "a", "x", ":", " ", "1", ",",
        " ", "a", "v", "g", ":", " ", "0", ".", "0", "7">>,
      <<"0", " ", " ", "1", " ", "5", ".", "0", "0", " ", "9", "9", "\n">>,
      <<"0", " ", "1", " ", "0", ".", "0", "7", "\n">> }

ToolOutcomes ==
    {[kind |-> "ok", output |-> o] : o \in LatencyOutputs}
    \cup {[kind |-> "OSError", output |-> <<>>]}

(* -m / --max-memory-usage and -l / --max-latency as argparse leaves them *)
MemoryArgs == {None, Float(0), Float(80), Float(100), Float(-80)}
LatencyArgs == {None, Float(0), Float(500), Float(2500), Float(-100)}

NoArgs == [max_latency |-> None, max_memory_usage |-> None]

Invocations ==
    {[probe |-> "mongo", argv |-> NoArgs] }
    \cup {[probe |-> "redis", argv |-> [max_latency |-> l, max_memory_usage |-> m]] :
             l \in LatencyArgs, m \in MemoryArgs}

NoRepl == [kind |-> "ok", myState |-> 0, msg |-> ""]
NoInfoOutcome == [kind |-> "ok", info |-> NoInfo, msg |-> ""]
NoTool == [kind |-> "ok", output |-> <<>>]

(* the service a probe talks to, as it is while the probe runs *)
Services(probe) ==
    IF probe = "mongo"
    THEN {[repl |-> r, info |-> NoInfoOutcome, tool |-> NoTool] : r \in ReplOutcomes}
    ELSE {[repl |-> NoRepl, info |-> i, tool |-> t] :
             i \in InfoOutcomes, t \in ToolOutcomes}

-----------------------------------------------------------------------------
(* The process *)

VARIABLES
    probe,              \* which of the two scripts the supervisor runs
    argv,               \* the parsed command line
    service,            \* what the service (and the latency tool) answers
    run,                \* the number of this invocation
    previous,           \* stdout and exit code of the invocation before, when
                        \* command line and service were the same; else <<>>
    pc,                 \* where the process is
    calls,              \* how often each collaborator was called in this run
    ARGS,               \* the module's table of defaults
    instance_status,    \* locals of report_instance_status
    client_information, max_latency, max_memory_usage,   \* of report_stats
    memory_healthy, max_memory_allowed_human, latency_healthy, latency,
    message,
    exc,                \* the exception in flight
    stdout, stderr, exit_code

env == <<probe, argv, service, run, previous>>
locals == <<instance_status, client_information, max_latency, max_memory_usage,
            memory_healthy, max_memory_allowed_human, latency_healthy, latency,
            message>>
io == <<stdout, stderr, exit_code>>
vars == <<env, pc, calls, ARGS, locals, exc, io>>

NoExc == [kind |-> "none", args |-> <<>>]
NoCalls == [connect |-> 0, query |-> 0, latency |-> 0]

(* a fresh interpreter that has executed the module's top level *)
Fresh ==
    /\ pc = "main"
    /\ calls = NoCalls
    /\ ARGS = ARGS_TABLE
    /\ instance_status = 0
    /\ client_information = NoInfo
    /\ max_latency = None
    /\ max_memory_usage = None
    /\ memory_healthy = TRUE
    /\ max_memory_allowed_human = <<>>
    /\ latency_healthy = TRUE
    /\ latency = 0
    /\ message = <<>>
    /\ exc = NoExc
    /\ stdout = <<>>
    /\ stderr = <<>>
    /\ exit_code = None

Init ==
    /\ \E i \in Invocations :
          /\ probe = i.probe
          /\ argv = i.argv
          /\ service \in Services(i.probe)
    /\ run = 1
    /\ previous = <<>>
    /\ Fresh

(* an exception leaves report_instance_status / report_stats for main *)
Raise(kind, args) ==
    /\ exc' = [kind |-> kind, args |-> args]
    /\ pc' = "report"

-----------------------------------------------------------------------------
(* check_mongolu_monitor.py, step by step *)

(* connection = MongoClient(...); message = '|replica_health=1;;0;;' *)
MongoConnect ==
    /\ probe = "mongo" /\ pc = "main"
    /\ calls' = [calls EXCEPT !.connect = @ + 1]
    /\ message' = <<"|replica_health=1;;0;;">>
    /\ pc' = "get_instance_status"
    /\ UNCHANGED <<env, ARGS, instance_status, client_information, max_latency,
                   max_memory_usage, memory_healthy, max_memory_allowed_human,
                   latency_healthy, latency, exc, io>>

(* instance_status = get_instance_status(connection) *)
MongoGetInstanceStatus ==
    /\ probe = "mongo" /\ pc = "get_instance_status"
    /\ calls' = [calls EXCEPT !.query = @ + 1]
    /\ IF service.repl.kind = "ok"
       THEN /\ instance_status' = service.repl.myState
            /\ pc' = "evaluate"
            /\ UNCHANGED exc
       ELSE /\ Raise(service.repl.kind, << <<service.repl.msg>> >>)
            /\ UNCHANGED instance_status
    /\ UNCHANGED <<env, ARGS, client_information, max_latency, max_memory_usage,
                   memory_healthy, max_memory_allowed_human, latency_healthy,
                   latency, message, io>>

(* the if / elif / else of report_instance_status, and its return or raise *)
MongoEvaluate ==
    /\ probe = "mongo" /\ pc = "evaluate"
    /\ LET r == ReportInstanceStatus(instance_status)
       IN /\ message' = r.message
          /\ exc' = IF r.raised = "none" THEN NoExc
                    ELSE [kind |-> r.raised, args |-> <<r.message>>]
    /\ pc' = "report"
    /\ UNCHANGED <<env, calls, ARGS, instance_status, client_information,
                   max_latency, max_memory_usage, memory_healthy,
                   max_memory_allowed_human, latency_healthy, latency, io>>

-----------------------------------------------------------------------------
(* check_redis_monitor.py, step by step *)

(* con = redis.Redis() *)
RedisConnect ==
    /\ probe = "redis" /\ pc = "main"
    /\ calls' = [calls EXCEPT !.connect = @ + 1]
    /\ max_latency' = argv.max_latency
    /\ max_memory_usage' = argv.max_memory_usage
    /\ pc' = "info"
    /\ UNCHANGED <<env, ARGS, instance_status, client_information, memory_healthy,
                   max_memory_allowed_human, latency_healthy, latency, message,
                   exc, io>>

(* client_information = con.client().info() *)
RedisInfo ==
    /\ probe = "redis" /\ pc = "info"
    /\ calls' = [calls EXCEPT !.query = @ + 1]
    /\ IF service.info.kind = "ok"
       THEN /\ client_information' = service.info.info
            /\ pc' = "resolve"
            /\ UNCHANGED exc
       ELSE /\ Raise(service.info.kind, << <<service.info.msg>> >>)
            /\ UNCHANGED client_information
    /\ UNCHANGED <<env, ARGS, instance_status, max_latency, max_memory_usage,
                   memory_healthy, max_memory_allowed_human, latency_healthy,
                   latency, message, io>>

(* if not max_memory_usage: ...; if not max_latency: ... *)
RedisResolve ==
    /\ probe = "redis" /\ pc = "resolve"
    /\ max_memory_usage' = Resolve(max_memory_usage, ARGS.MAX_PERCENTUAL_MEMORY_USAGE)
    /\ max_latency' = Resolve(max_latency, ARGS.MAX_LATENCY_MS)
    /\ pc' = "check_memory_usage"
    /\ UNCHANGED <<env, calls, ARGS, instance_status, client_information,
                   memory_healthy, max_memory_allowed_human, latency_healthy,
                   latency, message, exc, io>>

(* the memory check raising at once on an unhealthy verdict *)
RedisCheckMemoryShortCircuit ==
    /\ probe = "redis" /\ pc = "check_memory_usage"
    /\ LET r == CheckMemoryUsage(client_information, Val(max_memory_usage))
       IN IF r.error # "none"
          THEN /\ Raise(r.error, << <<"could not convert string to float">> >>)
               /\ UNCHANGED <<memory_healthy, max_memory_allowed_human>>
          ELSE /\ memory_healthy' = r.memory_healthy
               /\ max_memory_allowed_human' = r.max_memory_allowed_human
               /\ IF r.memory_healthy
                  THEN pc' = "check_latency" /\ UNCHANGED exc
                  ELSE Raise("RedisError", << <<"high memory usage">> >>)
    /\ UNCHANGED <<env, calls, ARGS, instance_status, client_information,
                   max_latency, max_memory_usage, latency_healthy, latency,
                   message, io>>

(* memory_healthy, max_memory_allowed_human = check_memory_usage(...) *)
RedisCheckMemory ==
    /\ probe = "redis" /\ pc = "check_memory_usage"
    /\ LET r == CheckMemoryUsage(client_information, Val(max_memory_usage))
       IN IF r.error # "none"
          THEN /\ Raise(r.error, << <<"could not convert string to float">> >>)
               /\ UNCHANGED <<memory_healthy, max_memory_allowed_human>>
          ELSE /\ memory_healthy' = r.memory_healthy
               /\ max_memory_allowed_human' = r.max_memory_allowed_human
               /\ pc' = "check_latency"
               /\ UNCHANGED exc
    /\ UNCHANGED <<env, calls, ARGS, instance_status, client_information,
                   max_latency, max_memory_usage, latency_healthy, latency,
                   message, io>>

(* what check_latency(max_latency) comes to in this state *)
LatencyResult == CheckLatency(Val(max_latency), service.tool)

(* latency_healthy, latency = check_latency(max_latency) *)
RedisCheckLatency ==
    /\ probe = "redis" /\ pc = "check_latency"
    /\ calls' = [calls EXCEPT !.latency = @ + 1]
    /\ IF LatencyResult.error # "none"
       THEN /\ Raise(LatencyResult.error, << <<LatencyResult.error>> >>)
            /\ UNCHANGED <<latency_healthy, latency>>
       ELSE /\ latency_healthy' = LatencyResult.healthy
            /\ latency' = LatencyResult.latency
            /\ pc' = "format_message"
            /\ UNCHANGED exc
    /\ UNCHANGED <<env, ARGS, instance_status, client_information, max_latency,
                   max_memory_usage, memory_healthy, max_memory_allowed_human,
                   message, io>>

(* report_stats raising with `and` for `or` *)
RedisFormatAndRaiseBoth ==
    /\ probe = "redis" /\ pc = "format_message"
    /\ message' = FormatMessage(memory_healthy, max_memory_allowed_human,
                                latency_healthy, Val(max_latency),
                                client_information, latency)
    /\ exc' = IF ~memory_healthy /\ ~latency_healthy
              THEN [kind |-> "RedisError", args |-> <<message'>>]
              ELSE NoExc
    /\ pc' = "report"
    /\ UNCHANGED <<env, calls, ARGS, instance_status, client_information,
                   max_latency, max_memory_usage, memory_healthy,
                   max_memory_allowed_human, latency_healthy, latency, io>>

(* message = format_message(...); raise redis.RedisError(message) when a   *)
(* verdict is unhealthy, else return message                               *)
RedisFormat ==
    /\ probe = "redis" /\ pc = "format_message"
    /\ message' = FormatMessage(memory_healthy, max_memory_allowed_human,
                                latency_healthy, Val(max_latency),
                                client_information, latency)
    /\ exc' = IF ~memory_healthy \/ ~latency_healthy
              THEN [kind |-> "RedisError", args |-> <<message'>>]
              ELSE NoExc
    /\ pc' = "report"
    /\ UNCHANGED <<env, calls, ARGS, instance_status, client_information,
                   max_latency, max_memory_usage, memory_healthy,
                   max_memory_allowed_human, latency_healthy, latency, io>>

-----------------------------------------------------------------------------
(* main of either script, from the return or raise of the report function  *)

Caught == IF probe = "mongo" THEN MongoCaught ELSE RedisCaught

RECURSIVE JoinArgs(_)
(* print with the starred args: the arguments, a space between two *)
JoinArgs(args) ==
    IF args = <<>> THEN <<>>
    ELSE IF Len(args) = 1 THEN args[1]
    ELSE args[1] \o <<" ">> \o JoinArgs(Tail(args))

ExitCode(n) == <<n>>

(* print(message); sys.exit(STATUS['OK']) -- or the except clause that     *)
(* matches: print of ex.args, starred; sys.exit(STATUS['CRITICAL']) -- or, no clause *)
(* matching, the interpreter's traceback on stderr and exit status 1       *)
Report ==
    /\ pc = "report"
    /\ IF exc.kind = "none"
       THEN /\ stdout' = Append(stdout, message)
            /\ exit_code' = ExitCode(STATUS.OK)
            /\ UNCHANGED stderr
       ELSE IF exc.kind \in Caught
       THEN /\ stdout' = Append(stdout, JoinArgs(exc.args))
            /\ exit_code' = ExitCode(STATUS.CRITICAL)
            /\ UNCHANGED stderr
       ELSE /\ stderr' = Append(stderr, <<"Traceback (most recent call last): ",
                                          exc.kind>>)
            /\ exit_code' = ExitCode(1)
            /\ UNCHANGED stdout
    /\ pc' = "exited"
    /\ UNCHANGED <<env, calls, ARGS, locals, exc>>

-----------------------------------------------------------------------------
(* The supervisor invokes the probe again, with the command line of its    *)
(* configuration: a new process.  Invoke: the service is as it was;        *)
(* InvokeChanged: the service answers differently.                         *)

(* the interpreter of the run before, its state kept *)
RestartStale ==
    /\ pc' = "main"
    /\ calls' = NoCalls
    /\ UNCHANGED <<ARGS, locals, exc, io>>

(* a fresh interpreter executes the module's top level *)
Restart ==
    /\ pc' = "main"
    /\ calls' = NoCalls
    /\ ARGS' = ARGS_TABLE
    /\ instance_status' = 0
    /\ client_information' = NoInfo
    /\ max_latency' = None
    /\ max_memory_usage' = None
    /\ memory_healthy' = TRUE
    /\ max_memory_allowed_human' = <<>>
    /\ latency_healthy' = TRUE
    /\ latency' = 0
    /\ message' = <<>>
    /\ exc' = NoExc
    /\ stdout' = <<>>
    /\ stderr' = <<>>
    /\ exit_code' = None

Invoke ==
    /\ pc = "exited" /\ run < MaxRuns
    /\ run' = run + 1
    /\ previous' = <<[stdout |-> stdout, exit_code |-> exit_code]>>
    /\ Restart
    /\ UNCHANGED <<probe, argv, service>>

InvokeChanged ==
    /\ pc = "exited" /\ run < MaxRuns
    /\ run' = run + 1
    /\ previous' = <<>>
    /\ service' \in Services(probe) \ {service}
    /\ Restart
    /\ UNCHANGED <<probe, argv>>

Next ==
    \/ MongoConnect
    \/ MongoGetInstanceStatus
    \/ MongoEvaluate
    \/ RedisConnect
    \/ RedisInfo
    \/ RedisResolve
    \/ RedisCheckMemory
    \/ RedisCheckLatency
    \/ RedisFormat
    \/ Report
    \/ Invoke
    \/ InvokeChanged

Spec == Init /\ [][Next]_vars

-----------------------------------------------------------------------------
(* Properties *)

Exited == pc = "exited"

(* the lines on stdout, each as the text it is *)
Printed == [i \in 1..Len(stdout) |-> Text(stdout[i])]

(* the run printed the line report_stats built from its two verdicts *)
VerdictLine ==
    /\ probe = "redis" /\ Exited
    /\ service.info.kind = "ok"
    /\ exc.kind \in {"none", "RedisError"}

LastChar(cs) == cs[Len(cs)]

C2_CompositeVerdict ==
    VerdictLine =>
        /\ exit_code = ExitCode(0) <=> (memory_healthy /\ latency_healthy)
        /\ exit_code \in {ExitCode(0), ExitCode(2)}
        /\ Len(stdout) = 1
        /\ stdout[1][2] = " memory usage: "
        /\ stdout[1][1] = (IF memory_healthy THEN "" ELSE "high")
        /\ stdout[1][10] = " average latency: "
        /\ stdout[1][9] = (IF latency_healthy THEN "" ELSE "high")

C2_Witness ==
    /\ VerdictLine
    /\ memory_healthy /\ ~latency_healthy
    /\ exit_code = ExitCode(2)
    /\ stdout[1][1] = "" /\ stdout[1][9] = "high"

(* a collaborator operation failed in this run *)
CollaboratorFailed ==
    \/ probe = "mongo" /\ service.repl.kind # "ok"
    \/ probe = "redis" /\ service.info.kind # "ok"
    \/ probe = "redis" /\ service.info.kind = "ok"
         /\ CheckLatency(Val(max_latency), service.tool).error # "none"

(* C3: every run of either probe ends with exit code 0 or 2; a failure of   *)
(* a collaborator operation (connecting, the replication-state or info     *)
(* query, starting the latency tool, parsing its output) ends with one     *)
(* line of error text on stdout and exit code 2.                           *)
C3_FailuresAreCritical ==
    Exited =>
        /\ exit_code \in {ExitCode(0), ExitCode(2)}
        /\ CollaboratorFailed => (exit_code = ExitCode(2) /\ Len(stdout) = 1)

(* the memory verdict has been computed *)
MemoryChecked ==
    /\ probe = "redis"
    /\ pc \in {"check_latency", "format_message", "report", "exited"}
    /\ service.info.kind = "ok"

(* C4: the memory verdict is healthy if and only if                         *)
(* used_memory <= fraction * maxmemory, the boundary included; with         *)
(* maxmemory = 0 it is healthy only if used_memory = 0.                     *)
C4_MemoryVerdict ==
    MemoryChecked =>
        LET used == service.info.info.used_memory
            maxmemory == service.info.info.maxmemory
            fraction == Val(max_memory_usage)
        IN /\ memory_healthy <=> (100 * used <= fraction * maxmemory)
           /\ (maxmemory = 0 /\ memory_healthy) => used = 0

C4_Witness ==
    /\ MemoryChecked
    /\ service.info.info.maxmemory > 0
    /\ 100 * service.info.info.used_memory
         = Val(max_memory_usage) * service.info.info.maxmemory
    /\ memory_healthy

(* the latency verdict has been computed *)
LatencyChecked ==
    /\ probe = "redis"
    /\ pc \in {"format_message", "report", "exited"}
    /\ service.info.kind = "ok"
    /\ exc.kind \in {"none", "RedisError"}

(* the n-th field of cs, fields parted by single spaces: what lies between *)
(* the (n-1)-th and the n-th space                                         *)
SpaceField(cs, n) ==
    LET spaces == {i \in 1..Len(cs) : cs[i] = " "}
        before(i) == Cardinality({j \in spaces : j < i})
        from == IF n = 1 THEN 1
                ELSE 1 + CHOOSE i \in spaces : before(i) = n - 2
        to == IF Cardinality(spaces) < n THEN Len(cs)
              ELSE (CHOOSE i \in spaces : before(i) = n - 1) - 1
    IN SubSeq(cs, from, to)

RECURSIVE WhitespaceTokens(_)
(* the tokens of cs, parted by runs of whitespace *)
WhitespaceTokens(cs) ==
    LET s == LStrip(cs)
        ws == {i \in 1..Len(s) : s[i] \in Whitespace}
        end == IF ws = {} THEN Len(s) + 1 ELSE CHOOSE i \in ws : \A j \in ws : i <= j
    IN IF s = <<>> THEN <<>>
       ELSE <<SubSeq(s, 1, end - 1)>> \o WhitespaceTokens(SubSeq(s, end, Len(s)))

Resolved ==
    /\ probe = "redis"
    /\ pc \in {"check_memory_usage", "check_latency", "format_message"}

(* C6: each threshold on its own: an absent (None) or zero caller value     *)
(* gives the built-in default (0.95, 20.0); any other caller value,        *)
(* negative ones included, is the threshold unchanged; the table of        *)
(* defaults is never modified.                                             *)
C6_ThresholdResolution ==
    /\ ARGS = [MAX_PERCENTUAL_MEMORY_USAGE |-> 95, MAX_LATENCY_MS |-> 2000]
    /\ Resolved =>
        /\ max_memory_usage =
              IF argv.max_memory_usage \in {None, Float(0)}
              THEN Float(95) ELSE argv.max_memory_usage
        /\ max_latency =
              IF argv.max_latency \in {None, Float(0)}
              THEN Float(2000) ELSE argv.max_latency

C6_Witness ==
    /\ Resolved
    /\ argv.max_latency = Float(0) /\ max_latency = Float(2000)
    /\ argv.max_memory_usage = Float(-80) /\ max_memory_usage = Float(-80)

(* C7, as stated: in every printed line the allowed limit of the           *)
(* used_memory token carries the unit suffix of the used_memory value of   *)
(* that token.                                                             *)
C7_LimitUnitIsUsedUnit ==
    VerdictLine =>
        /\ stdout[1][18] = LastChar(service.info.info.used_memory_human)
        /\ stdout[1][19] = stdout[1][15]

(* C7, amended: in every printed line the allowed limit of the used_memory  *)
(* token carries the unit suffix of maxmemory_human, the string it is      *)
(* derived from (and so the one of the used_memory value only when the two *)
(* strings have the same unit).                                            *)
C7_LimitUnitIsMaxUnit ==
    VerdictLine =>
        /\ stdout[1][18] = LastChar(service.info.info.maxmemory_human)
        /\ stdout[1][19] = "B"
        /\ stdout[1][14] = Text(service.info.info.used_memory_human)

C7_Witness ==
    /\ VerdictLine
    /\ LastChar(service.info.info.maxmemory_human)
         # LastChar(service.info.info.used_memory_human)
    /\ stdout[1][18] = "M"

RunnerState(p) ==
    CASE p = "main" -> 0
      [] p = "report" -> 2
      [] p = "exited" -> 3
      [] OTHER -> 1

(* a step of the run is enabled: every step's guard is its place in the    *)
(* code, and each collaborator call returns or raises                      *)
CanStep ==
    \/ probe = "mongo" /\ pc \in {"main", "get_instance_status", "evaluate"}
    \/ probe = "redis" /\ pc \in {"main", "info", "resolve", "check_memory_usage",
                                   "check_latency", "format_message"}
    \/ pc = "report"

(* C9: a run visits Idle, Connected, Evaluated, Reported in this order and  *)
(* none twice; each collaborator operation is invoked at most once;        *)
(* nothing is printed before evaluation has finished or failed; exactly    *)
(* one line is printed; a run that has not reached its terminal outcome    *)
(* can always take its next step, so that it reaches one.                  *)
C9_SinglePass ==
    /\ [][run' = run =>
             RunnerState(pc') \in {RunnerState(pc), RunnerState(pc) + 1}]_vars
    /\ [](/\ calls.connect <= 1 /\ calls.query <= 1 /\ calls.latency <= 1
          /\ stdout # <<>> => Exited
          /\ Exited => Len(stdout) = 1
          /\ Exited \/ CanStep)

(* C10: the info query succeeded: the latency measurement is invoked        *)
(* whatever the memory verdict, and the printed line of a verdict (exit 0, *)
(* or exit 2 from an unhealthy verdict) has the memory-usage and the       *)
(* average-latency segment and both performance tokens, with the allowed   *)
(* human limit and the effective latency threshold.                        *)
C10_BothVerdicts ==
    /\ (probe = "redis" /\ service.info.kind = "ok"
          /\ pc \in {"format_message", "report", "exited"})
       => calls.latency = 1
    /\ VerdictLine =>
          /\ Len(stdout) = 1 /\ Len(stdout[1]) = 24
          /\ stdout[1][2] = " memory usage: "
          /\ stdout[1][10] = " average latency: "
          /\ stdout[1][13] = "|used_memory="
          /\ SubSeq(stdout[1], 17, 19) = max_memory_allowed_human
          /\ Len(max_memory_allowed_human) = 3
          /\ stdout[1][20] = ";; average_latency="
          /\ stdout[1][21] = PyFloatRepr(latency)
          /\ stdout[1][23] =
                PyFloatRepr(IF argv.max_latency \in {None, Float(0)}
                            THEN 2000 ELSE Val(argv.max_latency))
          /\ exit_code \in {ExitCode(0), ExitCode(2)}

C10_Witness ==
    /\ VerdictLine
    /\ ~memory_healthy /\ latency_healthy
    /\ calls.latency = 1
    /\ exit_code = ExitCode(2)
    /\ stdout[1][1] = "high"

=============================================================================
